---------------------------- MODULE Spec2Model ----------------------------
(***************************************************************************)
(* Verification model of three parts of the Gear execution substrate:      *)
(*   - the wasmtime host environment (core-backend/src/wasmtime/env.rs),   *)
(*   - the gas/allowance injector   (utils/wasm-instrument/src/lib.rs),    *)
(*   - the lazy-pages Ext facade    (pallets/gear/src/ext.rs).             *)
(* Each part has its own specification over the module's variables; the    *)
(* variables of the other parts stay unchanged in it.                      *)
(***************************************************************************)
EXTENDS Integers, Sequences, FiniteSets, TLC

VARIABLES
    \* ---- Environment (env.rs) ----
    pc,          \* position inside setup_and_run / run_inner
    cell,        \* Environment.ext : LaterExt<E>; <<>> is the empty cell
    argExt,      \* the `ext: E` argument while it is still owned by the call
    extIn,       \* the ext value the current call was given (history)
    binaryOk,    \* whether `binary` of the current call is a valid module
    imports,     \* module.imports() of the current module
    memIsWasmtime, \* whether `memory` downcasts to wasmtime::Memory
    entryExported, \* whether the module exports a function named entry_point
    resolved,    \* the `imports` vector: per import its Option<Extern>
    phase,       \* which guest function is running: "none", "start", "entry"
    result,      \* run_inner's result once known; <<>> before
    returned,    \* the pair (result, ext) handed back by the current call
    trace,       \* what the current call has done so far (history)
    calls,       \* number of setup_and_run calls made on this Environment
    guestSteps,  \* guest events of the current call
    \* ---- inject (lib.rs) ----
    imod,        \* the module the caller holds: the input of the next inject
    ins,         \* gas_module_name
    ihist,       \* the inject calls made so far: input, rules, result
    \* ---- one execution of an instrumented module ----
    gmod,        \* the instrumented module being run
    grules,      \* the rules it was instrumented with
    globalVals,  \* the instance's globals, by global index + 1
    frame,       \* where the execution is: function, block, instruction
    stack,       \* the operand stack of the charging function
    locals,      \* its locals: <<local 0 (i32 param), local 1 (i64)>>
    glog,        \* what the execution has done so far (history)
    charged,     \* operands of the charges that passed the gas check (history)
    gas0,        \* the counters as the host set them before the run (history)
    allowance0,
    atCall,      \* the counters and operand at the last charging call (history)
    \* ---- lazy pages around one program's memory (ext.rs) ----
    lpc,         \* where the execution is: idle, running, growing, ended
    memAddr,     \* mem.get_buffer_host_addr(): where the buffer is now
    memSize,     \* mem.size(), in wasm pages
    content,     \* the memory's content, by gear page
    staticPages, \* static_pages of the program
    allocations, \* the allocations set of the inner Ext (wasm pages)
    prot,        \* the gear pages protection is set on
    protAddr,    \* the buffer address the protections were set against
    released,    \* lazy_pages::get_released_pages()
    handler,     \* the LazyGrowHandler of the alloc in progress, or <<>>
    grown,       \* size and address before and after the last growth (history)
    touched,     \* gear pages accessed in this execution (history)
    written,     \* gear pages written in this execution (history)
    extracted,   \* what into_ext_info returned: <<pages with data>>, or <<>>
    llog,        \* lifecycle events of this execution (history)
    execs,       \* executions started
    lsteps       \* guest operations of this execution

envVars == <<pc, cell, argExt, extIn, binaryOk, imports, memIsWasmtime,
                   entryExported,
             resolved, phase, result, returned, trace, calls, guestSteps>>

injVars == <<imod, ins, ihist>>

gasVars == <<gmod, grules, globalVals, frame, stack, locals, glog, charged,
             gas0, allowance0, atCall>>

lazyVars == <<lpc, memAddr, memSize, content, staticPages, allocations, prot,
              protAddr, released, handler, grown, touched, written, extracted,
              llog, execs, lsteps>>

vars == <<envVars, injVars, gasVars, lazyVars>>

-----------------------------------------------------------------------------
(* Bounds of the model *)

MaxCalls == 2
MaxGuestSteps == 2

-----------------------------------------------------------------------------
(* Environment::new : the host-function table.  Each key is registered     *)
(* through one add_func_* helper, which wraps the operation with wrap1..5, *)
(* except gr_size (add_func_to_i32), whose operation is Fn() -> i32 and is *)
(* registered unwrapped.                                                   *)

funcs ==
    [ alloc         |-> "wrap1", free       |-> "wrap1", gas      |-> "wrap1",
      gr_commit     |-> "wrap1", gr_charge  |-> "wrap1", gr_debug |-> "wrap2",
      gr_init       |-> "wrap5", gr_msg_id  |-> "wrap1", gr_push  |-> "wrap3",
      gr_push_reply |-> "wrap2", gr_read    |-> "wrap3", gr_reply |-> "wrap4",
      gr_reply_to   |-> "wrap1", gr_send    |-> "wrap5", gr_size  |-> "none",
      gr_source     |-> "wrap1", gr_value   |-> "wrap1" ]

\* The results the operation behind a key can produce: Result<_, &str> for
\* the wrapped ones, a plain i32 for gr_size.
OpResults(key) == IF funcs[key] = "none" THEN {"ok"} ELSE {"ok", "err"}

\* wrap1..wrap5: move |a..| func(a..).map_err(Trap::new)
\* (WrapSwallow is a wrapper that drops the error instead)
WrapSwallow(r) == "ok"
Wrap(r) == IF r = "err" THEN "trap" ELSE "ok"

\* What the guest sees when it calls the host function registered under key
\* and its operation produces r.
HostCall(key, r) == IF funcs[key] = "none" THEN r ELSE Wrap(r)

-----------------------------------------------------------------------------
(* Inputs of setup_and_run *)

Imp(m, n) == [module |-> m, name |-> n]

\* Modules by their import list.  import.name() is an Option<&str>.
ImportLists ==
    { <<>>,
      << Imp("env", <<"memory">>) >>,
      << Imp("env", <<"alloc">>), Imp("env", <<"unknown_fn">>) >>,
      << Imp("env", <<"memory">>), Imp("env", <<"alloc">>), Imp("env", <<"gr_size">>) >>,
      << Imp("env", <<"gr_send">>), Imp("env", <<"free">>) >>,
      << Imp("wasi", <<"alloc">>) >>,
      << Imp("env", <<"memory">>), Imp("other", <<"memory">>) >>,
      << Imp("env", <<"unknown_fn">>), Imp("env", <<"memory">>) >>,
      << Imp("env", <<>>) >> }

ExtIds == {1, 2}
\* An ext: its identity, the work its operations have done, and the
\* operations its context's policy disallows (context.forbidden_funcs).
NewExt(id) == [id |-> id, work |-> 0, forbidden |-> {}]
ForbiddenSets == { {}, {"alloc", "gr_send"} }
\* Ext::forbidden_funcs
forbidden_funcs(ext) == ext.forbidden

IsErr(r) == r # "Ok"

\* The import policy: namespace "env", name "memory" or a key of the table.
ImportOk(imp) ==
    /\ imp.module = "env"
    /\ imp.name # <<>>
    /\ (imp.name[1] = "memory" \/ imp.name[1] \in DOMAIN funcs)

ImportsOk(imps) == \A i \in 1..Len(imps) : ImportOk(imps[i])

-----------------------------------------------------------------------------
(* setup_and_run *)

EnvInit ==
    /\ pc = "idle"
    /\ cell = <<>>                  \* LaterExt::new()
    /\ argExt = <<>>
    /\ extIn = NewExt(1)
    /\ binaryOk = TRUE
    /\ imports = <<>>
    /\ memIsWasmtime = TRUE
    /\ entryExported = TRUE
    /\ resolved = <<>>
    /\ phase = "none"
    /\ result = <<>>
    /\ returned = <<>>
    /\ trace = <<>>
    /\ calls = 0
    /\ guestSteps = 0

\* The call, and line 70: Module::new(engine, binary).expect(..) panics on an
\* invalid binary, before the ext was put into the cell.
SetupAndRun_ModuleNew ==
    /\ pc = "idle"
    /\ calls < MaxCalls
    /\ \E id \in ExtIds, ok \in BOOLEAN, imps \in ImportLists, mw \in BOOLEAN,
       hasEntry \in BOOLEAN, fb \in ForbiddenSets :
        /\ argExt' = << [NewExt(id) EXCEPT !.forbidden = fb] >>
        /\ extIn' = [NewExt(id) EXCEPT !.forbidden = fb]
        /\ binaryOk' = ok
        /\ imports' = IF ok THEN imps ELSE <<>>
        /\ memIsWasmtime' = mw
        /\ entryExported' = IF ok THEN hasEntry ELSE FALSE
        /\ pc' = IF ok THEN "ext_set" ELSE "panicked"
    /\ calls' = calls + 1
    /\ resolved' = <<>>
    /\ phase' = "none"
    /\ result' = <<>>
    /\ returned' = <<>>
    /\ trace' = << "module_new" >>
    /\ guestSteps' = 0
    /\ UNCHANGED cell
    /\ UNCHANGED <<injVars, gasVars, lazyVars>>

\* line 72: self.ext.set(ext)
SetupAndRun_ExtSet ==
    /\ pc = "ext_set"
    /\ cell' = argExt
    /\ argExt' = <<>>
    /\ trace' = Append(trace, "ext_set")
    /\ pc' = "namespace"
    /\ UNCHANGED <<extIn, binaryOk, imports, memIsWasmtime,
                   entryExported, resolved, phase,
                   result, returned, calls, guestSteps>>
    /\ UNCHANGED <<injVars, gasVars, lazyVars>>

\* lines 84-86: let ext = self.ext.unset(); (result, ext)
SetupAndRun_ExtUnset ==
    /\ pc = "unset"
    /\ returned' = << [result |-> result[1], ext |-> cell[1]] >>
    /\ cell' = <<>>
    /\ trace' = Append(trace, "ext_unset")
    /\ pc' = "idle"
    /\ UNCHANGED <<argExt, extIn, binaryOk, imports, memIsWasmtime,
                   entryExported, resolved,
                   phase, result, calls, guestSteps>>
    /\ UNCHANGED <<injVars, gasVars, lazyVars>>

-----------------------------------------------------------------------------
(* run_inner *)

\* lines 112-121: every import must come from module "env"; the first other
\* one makes the collect, and with `?` run_inner, return the error.
RunInner_Namespace ==
    /\ pc = "namespace"
    /\ IF \E i \in 1..Len(imports) : imports[i].module # "env"
         THEN /\ result' = << "Err(Non-env imports are not supported)" >>
              /\ resolved' = <<>>
              /\ pc' = "unset"
         ELSE /\ result' = result
              /\ resolved' = [i \in 1..Len(imports) |-> <<>>]
              /\ pc' = "resolve"
    /\ trace' = Append(trace, "namespace")
    /\ UNCHANGED <<cell, argExt, extIn, binaryOk, imports, memIsWasmtime,
                   entryExported,
                   phase, returned, calls, guestSteps>>
    /\ UNCHANGED <<injVars, gasVars, lazyVars>>

\* lines 124-136: the Option<Extern> one import resolves to.
ResolveImport(imp) ==
    IF imp.name = <<>> THEN <<>>
    ELSE IF imp.name[1] = "memory" THEN << [kind |-> "memory", key |-> "memory"] >>
    ELSE IF imp.name[1] \in DOMAIN funcs THEN << [kind |-> "func", key |-> imp.name[1]] >>
    ELSE <<>>

\* lines 123-138: the loop over the imports; an import named "memory" panics
\* when the memory is not a wasmtime::Memory (line 130).
RunInner_Resolve ==
    /\ pc = "resolve"
    /\ IF /\ ~memIsWasmtime
          /\ \E i \in 1..Len(imports) : imports[i].name = <<"memory">>
         THEN /\ pc' = "panicked"
              /\ resolved' = resolved
         ELSE /\ pc' = "externs"
              /\ resolved' = [i \in 1..Len(imports) |-> ResolveImport(imports[i])]
    /\ trace' = Append(trace, "resolve")
    /\ UNCHANGED <<cell, argExt, extIn, binaryOk, imports, memIsWasmtime,
                   entryExported,
                   phase, result, returned, calls, guestSteps>>
    /\ UNCHANGED <<injVars, gasVars, lazyVars>>

\* A check that would note the missing import and instantiate all the same.
RunInner_Externs_GoOn ==
    /\ pc = "externs"
    /\ result' = IF \E i \in 1..Len(resolved) : resolved[i] = <<>>
                   THEN << "Err(Missing import)" >> ELSE result
    /\ pc' = "instance_new"
    /\ trace' = Append(trace, "externs")
    /\ UNCHANGED <<cell, argExt, extIn, binaryOk, imports, memIsWasmtime,
                   entryExported, resolved, phase, returned, calls, guestSteps>>
    /\ UNCHANGED <<injVars, gasVars, lazyVars>>

\* lines 140-145: an import left unresolved is the error "Missing import".
RunInner_Externs ==
    /\ pc = "externs"
    /\ IF \E i \in 1..Len(resolved) : resolved[i] = <<>>
         THEN /\ result' = << "Err(Missing import)" >>
              /\ pc' = "unset"
         ELSE /\ result' = result
              /\ pc' = "instance_new"
    /\ trace' = Append(trace, "externs")
    /\ UNCHANGED <<cell, argExt, extIn, binaryOk, imports, memIsWasmtime,
                   entryExported,
                   resolved, phase, returned, calls, guestSteps>>
    /\ UNCHANGED <<injVars, gasVars, lazyVars>>

\* (a variant that hands the instance to func without writing the pages)
RunInner_InstanceNew_NoPages ==
    /\ pc = "instance_new"
    /\ result' = result
    /\ pc' = "func"
    /\ phase' = phase
    /\ trace' = Append(trace, "instance_new")
    /\ UNCHANGED <<cell, argExt, extIn, binaryOk, imports, memIsWasmtime,
                   entryExported,
                   resolved, returned, calls, guestSteps>>
    /\ UNCHANGED <<injVars, gasVars, lazyVars>>

\* line 147: Instance::new(&self.store, &module, &externs)?  The engine may
\* refuse the externs (a type mismatch, a link error); otherwise it builds
\* the instance and runs the module's start function, if it has one, before
\* it returns.
RunInner_InstanceNew ==
    /\ pc = "instance_new"
    /\ \E linkOk \in BOOLEAN, hasStart \in BOOLEAN :
        IF ~linkOk
          THEN /\ result' = << "Err(instantiation)" >>
               /\ pc' = "unset"
               /\ phase' = phase
          ELSE IF hasStart
            THEN /\ result' = result
                 /\ pc' = "guest"
                 /\ phase' = "start"
            ELSE /\ result' = result
                 /\ pc' = "set_pages"
                 /\ phase' = phase
    /\ trace' = Append(trace, "instance_new")
    /\ UNCHANGED <<cell, argExt, extIn, binaryOk, imports, memIsWasmtime,
                   entryExported,
                   resolved, returned, calls, guestSteps>>
    /\ UNCHANGED <<injVars, gasVars, lazyVars>>

\* lines 150-152: memory.set_pages(memory_pages).map_err(..)?
RunInner_SetPages ==
    /\ pc = "set_pages"
    /\ \E ok \in BOOLEAN :
        IF ok
          THEN /\ result' = result
               /\ pc' = "func"
          ELSE /\ result' = << "Err(Can't set module memory)" >>
               /\ pc' = "unset"
    /\ trace' = Append(trace, "set_pages")
    /\ UNCHANGED <<cell, argExt, extIn, binaryOk, imports, memIsWasmtime,
                   entryExported,
                   resolved, phase, returned, calls, guestSteps>>
    /\ UNCHANGED <<injVars, gasVars, lazyVars>>

\* A closure that would not look the export up and call into the instance
\* whatever it exports.
RunInner_Func_NoLookup ==
    /\ pc = "func"
    /\ result' = result
    /\ pc' = "guest"
    /\ phase' = "entry"
    /\ trace' = Append(trace, "get_func")
    /\ UNCHANGED <<cell, argExt, extIn, binaryOk, imports, memIsWasmtime,
                   entryExported, resolved, returned, calls, guestSteps>>
    /\ UNCHANGED <<injVars, gasVars, lazyVars>>

\* line 154 with lines 74-82: func(instance), the closure of setup_and_run:
\* instance.get_func(entry_point), an error when there is no such export,
\* else entry_func.call(&[]).
RunInner_Func ==
    /\ pc = "func"
    /\ IF entryExported
          THEN /\ result' = result
               /\ pc' = "guest"
               /\ phase' = "entry"
          ELSE /\ result' = << "Err(failed to find function export)" >>
               /\ pc' = "unset"
               /\ phase' = "none"
    /\ trace' = Append(trace, "get_func")
    /\ UNCHANGED <<cell, argExt, extIn, binaryOk, imports, memIsWasmtime,
                   entryExported,
                   resolved, returned, calls, guestSteps>>
    /\ UNCHANGED <<injVars, gasVars, lazyVars>>

-----------------------------------------------------------------------------
(* Guest code: the start function run by Instance::new (line 147) and the  *)
(* entry point run by entry_func.call (line 80).                           *)

\* The host functions the instance can call: its imports resolved to Funcs.
ImportedFuncs ==
    { resolved[i][1].key : i \in { j \in 1..Len(resolved) :
                                   resolved[j] # <<>> /\ resolved[j][1].kind = "func" } }

\* A guest function that ends with a trap makes Instance::new (start) or
\* entry_func.call (entry) return the error.
GuestEnds(trapped) ==
    IF trapped
      THEN /\ result' = << "Err(trap)" >>
           /\ pc' = "unset"
           /\ phase' = "none"
      ELSE IF phase = "start"
        THEN /\ result' = result
             /\ pc' = "set_pages"
             /\ phase' = "none"
        ELSE /\ result' = << "Ok" >>       \* .map(|_| ())
             /\ pc' = "unset"
             /\ phase' = "none"

\* One guest instruction that is no call of an import.
Guest_Instr ==
    /\ pc = "guest"
    /\ guestSteps < MaxGuestSteps
    /\ guestSteps' = guestSteps + 1
    /\ trace' = Append(trace, "guest_" \o phase)
    /\ UNCHANGED <<pc, cell, argExt, extIn, binaryOk, imports, memIsWasmtime,
                   entryExported,
                   resolved, phase, result, returned, calls>>
    /\ UNCHANGED <<injVars, gasVars, lazyVars>>

\* The guest calls an imported host function.  The closure reads the cell on
\* the call (funcs::*(self.ext.clone())) and works on the ext it holds.  The
\* wrapper calls the closure with no look at the ext's forbidden_funcs; an
\* operation of that set that has run is noted as "forbidden_op".
Guest_HostCall ==
    /\ pc = "guest"
    /\ guestSteps < MaxGuestSteps
    /\ \E key \in ImportedFuncs : \E r \in OpResults(key) :
        /\ cell' = IF cell # <<>> /\ r = "ok"
                     THEN << [cell[1] EXCEPT !.work = @ + 1] >>
                     ELSE cell
        /\ trace' = Append(Append(
                       IF cell # <<>> /\ r = "ok" /\ key \in forbidden_funcs(cell[1])
                         THEN Append(trace, "forbidden_op") ELSE trace,
                       IF cell = <<>> THEN "host_on_empty_cell" ELSE "host_" \o phase),
                       "host_" \o r)
        /\ IF HostCall(key, r) = "trap"
             THEN GuestEnds(TRUE)
             ELSE UNCHANGED <<pc, phase, result>>
    /\ guestSteps' = guestSteps + 1
    /\ UNCHANGED <<argExt, extIn, binaryOk, imports, memIsWasmtime,
                   entryExported, resolved,
                   returned, calls>>
    /\ UNCHANGED <<injVars, gasVars, lazyVars>>

\* The guest traps by itself (unreachable, an out-of-bounds access).
Guest_Trap ==
    /\ pc = "guest"
    /\ GuestEnds(TRUE)
    /\ trace' = Append(trace, "trap_" \o phase)
    /\ UNCHANGED <<cell, argExt, extIn, binaryOk, imports, memIsWasmtime,
                   entryExported,
                   resolved, returned, calls, guestSteps>>
    /\ UNCHANGED <<injVars, gasVars, lazyVars>>

\* The guest function returns.
Guest_Return ==
    /\ pc = "guest"
    /\ GuestEnds(FALSE)
    /\ trace' = Append(trace, "return_" \o phase)
    /\ UNCHANGED <<cell, argExt, extIn, binaryOk, imports, memIsWasmtime,
                   entryExported,
                   resolved, returned, calls, guestSteps>>
    /\ UNCHANGED <<injVars, gasVars, lazyVars>>

-----------------------------------------------------------------------------
(* Unsigned 64-bit and 32-bit integers.  A u64 is four 16-bit limbs, least *)
(* significant first; a u32 is two.  Arithmetic is done limb by limb, as   *)
(* the machine does it, so that wrapping is what the hardware produces.    *)

Limb == 2 ^ 16

Zero64 == <<0, 0, 0, 0>>
Small(n) == <<n, 0, 0, 0>>                       \* n < Limb, as a u64
Small32(n) == <<n, 0>>                           \* n < Limb, as a u32
U32Max == <<Limb - 1, Limb - 1>>                 \* u32::MAX
U64Max == <<Limb - 1, Limb - 1, Limb - 1, Limb - 1>>   \* u64::MAX
I64Max == <<Limb - 1, Limb - 1, Limb - 1, (Limb \div 2) - 1>>  \* i64::MAX

\* u64::from(x: u32), `x as u64`, and the wasm instruction i64.extend_i32_u
ZeroExtend(x) == <<x[1], x[2], 0, 0>>

\* x + y with the carry out of the top limb
AddCarry(x, y) ==
    LET s1 == x[1] + y[1]
        s2 == x[2] + y[2] + (s1 \div Limb)
        s3 == x[3] + y[3] + (s2 \div Limb)
        s4 == x[4] + y[4] + (s3 \div Limb)
    IN  [val |-> <<s1 % Limb, s2 % Limb, s3 % Limb, s4 % Limb>>,
         carry |-> s4 \div Limb]

\* x - y with the borrow out of the top limb
SubBorrow(x, y) ==
    LET d1 == x[1] - y[1]
        b1 == IF d1 < 0 THEN 1 ELSE 0
        d2 == x[2] - y[2] - b1
        b2 == IF d2 < 0 THEN 1 ELSE 0
        d3 == x[3] - y[3] - b2
        b3 == IF d3 < 0 THEN 1 ELSE 0
        d4 == x[4] - y[4] - b3
        b4 == IF d4 < 0 THEN 1 ELSE 0
    IN  [val |-> <<d1 + b1 * Limb, d2 + b2 * Limb, d3 + b3 * Limb, d4 + b4 * Limb>>,
         borrow |-> b4]

WrappingAdd(x, y) == AddCarry(x, y).val          \* i64.add, u64 `+` in release
WrappingSub(x, y) == SubBorrow(x, y).val         \* i64.sub
\* u64::checked_add: an Option
CheckedAdd(x, y) == IF AddCarry(x, y).carry = 0 THEN << AddCarry(x, y).val >> ELSE <<>>
\* unsigned comparison, as i64.lt_u and Rust's `<` on u64
LtU(x, y) == SubBorrow(x, y).borrow = 1
LeU(x, y) == ~LtU(y, x)

-----------------------------------------------------------------------------
(* Instructions and modules (parity_wasm::elements)                        *)

Ins(op) == [op |-> op, idx |-> 0, imm |-> Zero64]
InsIdx(op, i) == [op |-> op, idx |-> i, imm |-> Zero64]
InsImm(op, v) == [op |-> op, idx |-> 0, imm |-> v]

\* SysCallName::OutOfGas.to_str(), SysCallName::OutOfAllowance.to_str()
OutOfGasName == "out_of_gas"
OutOfAllowanceName == "out_of_allowance"
GLOBAL_NAME_GAS == "gear_gas"
GLOBAL_NAME_ALLOWANCE == "gear_allowance"

Import(m, f, k, sig) == [module |-> m, field |-> f, kind |-> k, sig |-> sig]
Export(f, k, i) == [field |-> f, kind |-> k, index |-> i]
Global64 == [vtype |-> "i64", mutable |-> TRUE, init |-> Zero64]
\* a function of the code section: its metered blocks, each a run of
\* instructions; the charging function is one run, its `elements`
Function(sig, nlocals, blocks) == [sig |-> sig, locals |-> nlocals, blocks |-> blocks]

Module(imps, exps, globs, fns) ==
    [imports |-> imps, exports |-> exps, globals |-> globs, functions |-> fns]

\* module.import_count(ImportCountType::Function)
ImportCount(m, kind) ==
    Cardinality({ i \in 1..Len(m.imports) : m.imports[i].kind = kind })
\* module.functions_space(): imported and defined functions
FunctionsSpace(m) == ImportCount(m, "func") + Len(m.functions)
\* module.globals_space(): imported and defined globals
GlobalsSpace(m) == ImportCount(m, "global") + Len(m.globals)

Ok(m) == [ok |-> TRUE, module |-> m]
Err(m) == [ok |-> FALSE, module |-> m]

-----------------------------------------------------------------------------
(* Rules: instruction_cost is an Option<u32> per instruction,               *)
(* call_per_local_cost a u32.                                              *)

ChargeOps == {"GetGlobal", "GetLocal", "I64ExtendUI32", "I64Const", "I64Add",
              "TeeLocal", "I64LtU", "If", "Call", "Unreachable", "End",
              "I64Sub", "SetGlobal"}
GuestOps == {"I32Const", "I32Add", "Drop"}
Ops == ChargeOps \cup GuestOps

Rules(costOf, perLocal) == [cost |-> costOf, call_per_local_cost |-> perLocal]

\* every instruction costs k; a local costs k
FlatRules(k) == Rules([op \in Ops |-> << k >>], k)
\* only the guest's arithmetic costs anything
BodyOnlyRules ==
    Rules([op \in Ops |-> IF op \in {"I32Add", "Drop"} THEN << Small32(1) >>
                                                       ELSE << Small32(0) >>],
          Small32(0))
\* costs that tell the instructions apart
WeightedRules ==
    Rules([op \in Ops |-> CASE op = "If" -> << Small32(7) >>
                            [] op = "Call" -> << Small32(3) >>
                            [] op = "Unreachable" -> << Small32(100) >>
                            [] op = "End" -> << Small32(50) >>
                            [] op = "I32Const" -> << Small32(2) >>
                            [] OTHER -> << Small32(1) >>],
          Small32(11))
\* no cost is known for the instruction `missing`
RulesWithout(missing) ==
    Rules([op \in Ops |-> IF op = missing THEN <<>> ELSE << Small32(1) >>], Small32(1))

RulesSet == { FlatRules(Small32(1)), FlatRules(U32Max), BodyOnlyRules, WeightedRules,
              RulesWithout("I64Sub"), RulesWithout("I32Const"),
              RulesWithout("Call"), RulesWithout("Drop") }

\* rules.instruction_cost(instruction)
InstructionCost(rules, instruction) == rules.cost[instruction.op]

-----------------------------------------------------------------------------
(* inject                                                                  *)

\* lines 56-68: the module already imports a trap function from the namespace
\* (the first variant looks for out_of_gas alone)
PreCheckImports_GasOnly(module, gas_module_name) ==
    \E i \in 1..Len(module.imports) :
        /\ module.imports[i].module = gas_module_name
        /\ module.imports[i].field = OutOfGasName
PreCheckImports(module, gas_module_name) ==
    \E i \in 1..Len(module.imports) :
        /\ module.imports[i].module = gas_module_name
        /\ (\/ module.imports[i].field = OutOfGasName
            \/ module.imports[i].field = OutOfAllowanceName)

\* lines 70-80: the module already exports one of the reserved names
PreCheckExports(module) ==
    \E i \in 1..Len(module.exports) :
        \/ module.exports[i].field = GLOBAL_NAME_ALLOWANCE
        \/ module.exports[i].field = GLOBAL_NAME_GAS

\* A push that would put the two imports in front of the module's own.
PushImports_First(module, gas_module_name) ==
    LET import_sig == "()->()"
    IN  [module EXCEPT
            !.imports = << Import(gas_module_name, OutOfGasName, "func", import_sig),
                           Import(gas_module_name, OutOfAllowanceName, "func", import_sig) >>
                        \o @]

\* lines 85-106: the two imports, of signature fn() -> (), are pushed
PushImports(module, gas_module_name) ==
    LET import_sig == "()->()"
    IN  [module EXCEPT
            !.imports = Append(Append(@,
                Import(gas_module_name, OutOfGasName, "func", import_sig)),
                Import(gas_module_name, OutOfAllowanceName, "func", import_sig))]

\* lines 118-150: the two globals and their exports are pushed
PushGlobals(module, gas_index, allowance_index) ==
    [module EXCEPT
        !.globals = Append(Append(@, Global64), Global64),
        !.exports = Append(Append(@, Export(GLOBAL_NAME_GAS, "global", gas_index)),
                           Export(GLOBAL_NAME_ALLOWANCE, "global", allowance_index))]

\* A body that would check and charge the allowance before the gas.
elements_AllowanceFirst(gas_index, allowance_index, out_of_gas_index, out_of_allowance_index) ==
    << \* check if there is enough gas
       InsIdx("GetGlobal", allowance_index),
       \* total_gas_to_charge = gas_to_charge + cost_for_func
       InsIdx("GetLocal", 0),
       Ins("I64ExtendUI32"),
       InsImm("I64Const", I64Max),
       Ins("I64Add"),
       InsIdx("TeeLocal", 1),
       \* if gas < total_gas_to_charge
       Ins("I64LtU"),
       Ins("If"),
       InsIdx("Call", out_of_allowance_index),
       Ins("Unreachable"),
       Ins("End"),
       \* gas -= total_gas_to_charge
       InsIdx("GetGlobal", allowance_index),
       InsIdx("GetLocal", 1),
       Ins("I64Sub"),
       InsIdx("SetGlobal", allowance_index),
       \* if allowance < total_gas_to_charge
       InsIdx("GetGlobal", gas_index),
       InsIdx("GetLocal", 1),
       Ins("I64LtU"),
       Ins("If"),
       InsIdx("Call", out_of_gas_index),
       Ins("Unreachable"),
       Ins("End"),
       \* allowance -= total_gas_to_charge
       InsIdx("GetGlobal", gas_index),
       InsIdx("GetLocal", 1),
       Ins("I64Sub"),
       InsIdx("SetGlobal", gas_index),
       Ins("End") >>

\* lines 152-204: the body of the charging function, and three faulty
\* variants of it: one that subtracts the gas before comparing, one without
\* the allowance comparison, one without the Unreachable after the call of
\* out_of_allowance.
elements_SubBeforeCheck(gas_index, allowance_index, out_of_gas_index, out_of_allowance_index) ==
    << InsIdx("GetGlobal", gas_index),
       InsIdx("GetLocal", 0),
       Ins("I64ExtendUI32"),
       InsImm("I64Const", I64Max),
       Ins("I64Add"),
       InsIdx("TeeLocal", 1),
       Ins("I64Sub"),
       InsIdx("SetGlobal", gas_index),
       InsIdx("GetGlobal", gas_index),
       InsIdx("GetLocal", 1),
       Ins("I64LtU"),
       Ins("If"),
       InsIdx("Call", out_of_gas_index),
       Ins("Unreachable"),
       Ins("End"),
       InsIdx("GetGlobal", allowance_index),
       InsIdx("GetLocal", 1),
       Ins("I64LtU"),
       Ins("If"),
       InsIdx("Call", out_of_allowance_index),
       Ins("Unreachable"),
       Ins("End"),
       InsIdx("GetGlobal", allowance_index),
       InsIdx("GetLocal", 1),
       Ins("I64Sub"),
       InsIdx("SetGlobal", allowance_index),
       Ins("End") >>

elements_NoAllowanceCheck(gas_index, allowance_index, out_of_gas_index, out_of_allowance_index) ==
    << InsIdx("GetGlobal", gas_index),
       InsIdx("GetLocal", 0),
       Ins("I64ExtendUI32"),
       InsImm("I64Const", I64Max),
       Ins("I64Add"),
       InsIdx("TeeLocal", 1),
       Ins("I64LtU"),
       Ins("If"),
       InsIdx("Call", out_of_gas_index),
       Ins("Unreachable"),
       Ins("End"),
       InsIdx("GetGlobal", gas_index),
       InsIdx("GetLocal", 1),
       Ins("I64Sub"),
       InsIdx("SetGlobal", gas_index),
       InsIdx("GetGlobal", allowance_index),
       InsIdx("GetLocal", 1),
       Ins("I64Sub"),
       InsIdx("SetGlobal", allowance_index),
       Ins("End") >>

elements_NoUnreachable(gas_index, allowance_index, out_of_gas_index, out_of_allowance_index) ==
    << InsIdx("GetGlobal", gas_index),
       InsIdx("GetLocal", 0),
       Ins("I64ExtendUI32"),
       InsImm("I64Const", I64Max),
       Ins("I64Add"),
       InsIdx("TeeLocal", 1),
       Ins("I64LtU"),
       Ins("If"),
       InsIdx("Call", out_of_gas_index),
       Ins("Unreachable"),
       Ins("End"),
       InsIdx("GetGlobal", gas_index),
       InsIdx("GetLocal", 1),
       Ins("I64Sub"),
       InsIdx("SetGlobal", gas_index),
       InsIdx("GetGlobal", allowance_index),
       InsIdx("GetLocal", 1),
       Ins("I64LtU"),
       Ins("If"),
       InsIdx("Call", out_of_allowance_index),
       Ins("End"),
       InsIdx("GetGlobal", allowance_index),
       InsIdx("GetLocal", 1),
       Ins("I64Sub"),
       InsIdx("SetGlobal", allowance_index),
       Ins("End") >>

elements(gas_index, allowance_index, out_of_gas_index, out_of_allowance_index) ==
    << \* check if there is enough gas
       InsIdx("GetGlobal", gas_index),
       \* total_gas_to_charge = gas_to_charge + cost_for_func
       InsIdx("GetLocal", 0),
       Ins("I64ExtendUI32"),
       InsImm("I64Const", I64Max),
       Ins("I64Add"),
       InsIdx("TeeLocal", 1),
       \* if gas < total_gas_to_charge
       Ins("I64LtU"),
       Ins("If"),
       InsIdx("Call", out_of_gas_index),
       Ins("Unreachable"),
       Ins("End"),
       \* gas -= total_gas_to_charge
       InsIdx("GetGlobal", gas_index),
       InsIdx("GetLocal", 1),
       Ins("I64Sub"),
       InsIdx("SetGlobal", gas_index),
       \* if allowance < total_gas_to_charge
       InsIdx("GetGlobal", allowance_index),
       InsIdx("GetLocal", 1),
       Ins("I64LtU"),
       Ins("If"),
       InsIdx("Call", out_of_allowance_index),
       Ins("Unreachable"),
       Ins("End"),
       \* allowance -= total_gas_to_charge
       InsIdx("GetGlobal", allowance_index),
       InsIdx("GetLocal", 1),
       Ins("I64Sub"),
       InsIdx("SetGlobal", allowance_index),
       Ins("End") >>

\* lines 207-226: the cost of the successful path.  The filter keeps every If,
\* drops every End, and keeps another instruction when no If is open; the
\* fold adds the costs with checked_add and gives up on the first None.
RECURSIVE CostBlocksFrom(_, _, _, _, _)
CostBlocksFrom(elems, rules, i, block_of_code, cost) ==
    IF i > Len(elems) THEN << cost >>
    ELSE LET instruction == elems[i] IN
         IF instruction.op = "End"
           THEN CostBlocksFrom(elems, rules, i + 1, FALSE, cost)
         ELSE IF instruction.op # "If" /\ block_of_code
           THEN CostBlocksFrom(elems, rules, i + 1, block_of_code, cost)
         ELSE LET c == InstructionCost(rules, instruction)
                  inBlock == IF instruction.op = "If" THEN TRUE ELSE block_of_code
              IN  IF c = <<>> THEN <<>>
                  ELSE IF CheckedAdd(cost, ZeroExtend(c[1])) = <<>> THEN <<>>
                  ELSE CostBlocksFrom(elems, rules, i + 1, inBlock,
                                      CheckedAdd(cost, ZeroExtend(c[1]))[1])

\* (a sum that would not see the If instructions, and so would count what
\* stands inside them)
CostBlocks_IfBodies(elems, rules) ==
    CostBlocksFrom(SelectSeq(elems, LAMBDA e : e.op # "If"), rules, 1, FALSE, Zero64)

CostBlocks(elems, rules) == CostBlocksFrom(elems, rules, 1, FALSE, Zero64)

\* A sum that would leave out the cost of the charging function's own
\* instructions.
SumCost_NoBlocks(cost_push_arg, cost_call, cost_local_var, cost_blocks) ==
    WrappingAdd(WrappingAdd(cost_push_arg, cost_call), cost_local_var)

\* line 243: cost_push_arg + cost_call + cost_local_var + cost_blocks
SumCost(cost_push_arg, cost_call, cost_local_var, cost_blocks) ==
    WrappingAdd(WrappingAdd(WrappingAdd(cost_push_arg, cost_call), cost_local_var),
                cost_blocks)

\* line 247: u64::MAX - u64::from(u32::MAX)
CostLimit == WrappingSub(U64Max, ZeroExtend(U32Max))

\* lines 252-257: every I64Const of the body becomes I64Const(cost as i64)
PatchCost(elems, cost) ==
    [i \in 1..Len(elems) |->
        IF elems[i].op = "I64Const" THEN InsImm("I64Const", cost) ELSE elems[i]]

\* lines 260-270: the charging function, one i32 parameter and one i64 local
GasChargeFunction(elems) == Function("(i32)->()", 1, << elems >>)

\* gas_metering::post_injection_handler (line 275), of the wasm-instrument
\* crate: every metered block of every function but the charging one gets,
\* at its head, the block's cost as an i32 constant and a call of the
\* charging function; function indices at or above out_of_gas_index move up
\* by functions_added; a block whose cost the rules do not give, or whose
\* cost does not fit a u32, fails the injection.
RECURSIVE BlockCostFrom(_, _, _, _)
BlockCostFrom(block, rules, i, cost) ==
    IF i > Len(block) THEN << cost >>
    ELSE LET c == InstructionCost(rules, block[i]) IN
         IF c = <<>> THEN <<>>
         ELSE LET sum == WrappingAdd(cost, ZeroExtend(c[1])) IN
              IF LtU(ZeroExtend(U32Max), sum) THEN <<>>
              ELSE BlockCostFrom(block, rules, i + 1, sum)

BlockCost(block, rules) == BlockCostFrom(block, rules, 1, Zero64)

PostInjectionHandler(module, rules, gas_charge_index, out_of_gas_index, functions_added) ==
    LET import_count == ImportCount(module, "func")
        guest == { i \in 1..Len(module.functions) :
                       i - 1 + import_count # gas_charge_index }
        metered(block) ==
            << InsImm("I32Const", BlockCost(block, rules)[1]),
               InsIdx("Call", gas_charge_index) >> \o block
        moved(e) ==
            IF e.kind = "func" /\ e.index >= out_of_gas_index
              THEN [e EXCEPT !.index = @ + functions_added] ELSE e
    IN  IF \E i \in guest : \E b \in 1..Len(module.functions[i].blocks) :
              BlockCost(module.functions[i].blocks[b], rules) = <<>>
          THEN Err(module)
          ELSE Ok([module EXCEPT
                 !.functions = [i \in 1..Len(module.functions) |->
                     IF i \in guest
                       THEN [module.functions[i] EXCEPT !.blocks =
                               [b \in 1..Len(module.functions[i].blocks) |->
                                   metered(module.functions[i].blocks[b])]]
                       ELSE module.functions[i]],
                 !.exports = [i \in 1..Len(module.exports) |-> moved(module.exports[i])]])

\* (an inject that would hand the input back on a cost failure)
inject_InputOnCostFailure(module, rules, gas_module_name) ==
    IF PreCheckImports(module, gas_module_name) THEN Err(module)
    ELSE IF PreCheckExports(module) THEN Err(module)
    ELSE
    LET m1 == PushImports(module, gas_module_name)
        import_count == ImportCount(m1, "func")
        out_of_gas_index == import_count - 2
        out_of_allowance_index == import_count - 1
        gas_charge_index == FunctionsSpace(m1)
        gas_index == GlobalsSpace(m1)
        allowance_index == gas_index + 1
        mbuilder == PushGlobals(m1, gas_index, allowance_index)
        elems == elements(gas_index, allowance_index, out_of_gas_index,
                          out_of_allowance_index)
        cost_blocks == CostBlocks(elems, rules)
        cost_push_arg == InstructionCost(rules, Ins("I32Const"))
        cost_call == InstructionCost(rules, Ins("Call"))
        cost_local_var == ZeroExtend(rules.call_per_local_cost)
    IN  IF cost_blocks = <<>> THEN Err(module)
        ELSE IF cost_push_arg = <<>> THEN Err(module)
        ELSE IF cost_call = <<>> THEN Err(module)
        ELSE
        LET cost == SumCost(ZeroExtend(cost_push_arg[1]), ZeroExtend(cost_call[1]),
                            cost_local_var, cost_blocks[1])
        IN  IF LtU(CostLimit, cost) THEN Err(module)
            ELSE PostInjectionHandler(
                    [mbuilder EXCEPT !.functions =
                        Append(@, GasChargeFunction(PatchCost(elems, cost)))],
                    rules, gas_charge_index, out_of_gas_index, 2)

\* inject (lines 51-276)
inject(module, rules, gas_module_name) ==
    IF PreCheckImports(module, gas_module_name) THEN Err(module)
    ELSE IF PreCheckExports(module) THEN Err(module)
    ELSE
    LET m1 == PushImports(module, gas_module_name)
        import_count == ImportCount(m1, "func")
        out_of_gas_index == import_count - 2
        out_of_allowance_index == import_count - 1
        gas_charge_index == FunctionsSpace(m1)
        gas_index == GlobalsSpace(m1)
        allowance_index == gas_index + 1
        mbuilder == PushGlobals(m1, gas_index, allowance_index)
        elems == elements(gas_index, allowance_index, out_of_gas_index,
                          out_of_allowance_index)
        cost_blocks == CostBlocks(elems, rules)
        cost_push_arg == InstructionCost(rules, Ins("I32Const"))
        cost_call == InstructionCost(rules, Ins("Call"))
        cost_local_var == ZeroExtend(rules.call_per_local_cost)
    IN  IF cost_blocks = <<>> THEN Err(mbuilder)
        ELSE IF cost_push_arg = <<>> THEN Err(mbuilder)
        ELSE IF cost_call = <<>> THEN Err(mbuilder)
        ELSE
        LET cost == SumCost(ZeroExtend(cost_push_arg[1]), ZeroExtend(cost_call[1]),
                            cost_local_var, cost_blocks[1])
        IN  IF LtU(CostLimit, cost) THEN Err(mbuilder)
            ELSE PostInjectionHandler(
                    [mbuilder EXCEPT !.functions =
                        Append(@, GasChargeFunction(PatchCost(elems, cost)))],
                    rules, gas_charge_index, out_of_gas_index, 2)

-----------------------------------------------------------------------------
(* Callers of inject: the modules, namespaces and rules they pass          *)

Body5 == << << Ins("I32Add"), Ins("I32Add"), Ins("I32Add"), Ins("I32Add"), Ins("I32Add") >> >>
Body3 == << << Ins("I32Const"), Ins("Drop") >>, << Ins("Drop") >>, << Ins("I32Const") >> >>
\* one block of one instruction: its cost is the instruction's cost
Body1 == << << Ins("I32Const") >> >>

Handle(body) == Function("()->()", 0, body)
Exports0 == << Export("handle", "func", 0) >>
Exports1 == << Export("handle", "func", 1) >>
EnvImports == << Import("env", "memory", "memory", ""), Import("env", "alloc", "func", "(i32)->(i32)") >>

\* modules no injector has touched
PlainModules ==
    { Module(<<>>, Exports0, <<>>, << Handle(Body5) >>),
      Module(EnvImports, Exports1, << Global64 >>, << Handle(Body3) >>),
      Module(<< Import("env", "g", "global", "") >>, Exports0, <<>>, << Handle(Body1) >>) }

\* modules that use a reserved name already
ReservedModules ==
    { Module(<< Import("env", OutOfGasName, "func", "()->()") >>, Exports1, <<>>,
             << Handle(Body5) >>),
      Module(Append(EnvImports, Import("env", OutOfAllowanceName, "func", "()->()")),
             << Export("handle", "func", 2) >>, <<>>, << Handle(Body3) >>),
      Module(<< Import("gas", OutOfAllowanceName, "func", "()->()") >>, Exports1, <<>>,
             << Handle(Body1) >>),
      Module(<< Import("env", OutOfGasName, "global", "") >>, Exports0, <<>>,
             << Handle(Body1) >>),
      Module(<<>>, Append(Exports0, Export(GLOBAL_NAME_GAS, "global", 0)),
             << Global64 >>, << Handle(Body5) >>),
      Module(EnvImports, Append(Exports1, Export(GLOBAL_NAME_ALLOWANCE, "func", 1)),
             <<>>, << Handle(Body3) >>) }

ModuleSet == PlainModules \cup ReservedModules
Namespaces == {"env", "gas"}
MaxInjects == 2

InjInit ==
    /\ imod \in ModuleSet
    /\ ins \in Namespaces
    /\ ihist = <<>>

InjIdle ==
    /\ imod = Module(<<>>, <<>>, <<>>, <<>>)
    /\ ins = "env"
    /\ ihist = <<>>

\* The caller injects the module it holds and keeps what inject hands back.
Inject ==
    /\ Len(ihist) < MaxInjects
    /\ \E rules \in RulesSet :
        LET r == inject(imod, rules, ins) IN
        /\ ihist' = Append(ihist, [input |-> imod, rules |-> rules,
                                   ok |-> r.ok, output |-> r.module])
        /\ imod' = r.module
    /\ UNCHANGED ins
    /\ UNCHANGED <<envVars, gasVars, lazyVars>>

-----------------------------------------------------------------------------
(* One execution of an instrumented module: the guest runs metered blocks, *)
(* each headed by a call of the charging function, whose instructions are  *)
(* executed one by one as the engine does.                                 *)

MaxCharges == 3

\* the counters the host may set before the run
GasValues == { Zero64, Small(4), Small(5), Small(60), <<0, 0, 200, 0>>, U64Max }
AllowanceValues == { Zero64, Small(5), Small(30), <<0, 0, 30, 0>>, U64Max }

\* the function imports of a module, in function-index order
FuncImports(m) == SelectSeq(m.imports, LAMBDA e : e.kind = "func")
\* the index an export of the given name refers to
ExportIndex(m, name) ==
    m.exports[CHOOSE i \in 1..Len(m.exports) : m.exports[i].field = name].index
GasIndex(m) == ExportIndex(m, GLOBAL_NAME_GAS)
AllowanceIndex(m) == ExportIndex(m, GLOBAL_NAME_ALLOWANCE)
\* the defined function of the given function index
DefinedFunction(m, idx) == m.functions[idx - ImportCount(m, "func") + 1]

Gas == globalVals[GasIndex(gmod) + 1]
Allowance == globalVals[AllowanceIndex(gmod) + 1]

\* the instructions of the function being executed
Code == DefinedFunction(gmod, frame.f).blocks[1]

GasIdle ==
    /\ gmod = Module(<<>>, <<>>, <<>>, <<>>)
    /\ grules = FlatRules(Small32(0))
    /\ globalVals = <<>>
    /\ frame = [fn |-> "none", f |-> 0, block |-> 0, ip |-> 0, n |-> 0]
    /\ stack = <<>>
    /\ locals = << Small32(0), Zero64 >>
    /\ glog = <<>>
    /\ charged = <<>>
    /\ gas0 = Zero64
    /\ allowance0 = Zero64
    /\ atCall = [c |-> Small32(0), gas |-> Zero64, allowance |-> Zero64]

\* The module was instrumented (inject returned Ok), instantiated, and the
\* host has set the two exported counters.
GasInit ==
    /\ \E m \in PlainModules, rules \in RulesSet :
        /\ inject(m, rules, "env").ok
        /\ gmod = inject(m, rules, "env").module
        /\ grules = rules
    /\ gas0 \in GasValues
    /\ allowance0 \in AllowanceValues
    /\ globalVals = [i \in 1..GlobalsSpace(gmod) |->
                        IF i - 1 = GasIndex(gmod) THEN gas0
                        ELSE IF i - 1 = AllowanceIndex(gmod) THEN allowance0
                        ELSE Zero64]
    /\ frame = [fn |-> "guest", f |-> ExportIndex(gmod, "handle"), block |-> 0,
                ip |-> 0, n |-> 0]
    /\ stack = <<>>
    /\ locals = << Small32(0), Zero64 >>
    /\ glog = <<>>
    /\ charged = <<>>
    /\ atCall = [c |-> Small32(0), gas |-> gas0, allowance |-> allowance0]

\* The guest enters a metered block of the entry function: the head pushes
\* the block's cost and calls the charging function.
Guest_EnterBlock ==
    /\ frame.fn = "guest"
    /\ frame.n < MaxCharges
    /\ \E b \in 1..Len(DefinedFunction(gmod, frame.f).blocks) :
        LET block == DefinedFunction(gmod, frame.f).blocks[b]
            c == << block[1].imm[1], block[1].imm[2] >>       \* I32Const(c)
        IN  /\ frame' = [fn |-> "charge", f |-> block[2].idx, \* Call(gas_charge)
                         block |-> b, ip |-> 1, n |-> frame.n + 1]
            /\ locals' = << c, Zero64 >>
            /\ atCall' = [c |-> c, gas |-> Gas, allowance |-> Allowance]
    /\ stack' = <<>>
    /\ glog' = Append(glog, "charge")
    /\ UNCHANGED <<gmod, grules, globalVals, charged, gas0, allowance0>>
    /\ UNCHANGED <<envVars, injVars, lazyVars>>

Push(v) == Append(stack, v)
Top == stack[Len(stack)]
Second == stack[Len(stack) - 1]
Pop(k) == SubSeq(stack, 1, Len(stack) - k)
\* the instruction after the End that closes the If at ip
AfterEnd(ip) == 1 + CHOOSE j \in (ip + 1)..Len(Code) :
                        /\ Code[j].op = "End"
                        /\ \A k \in (ip + 1)..(j - 1) : Code[k].op # "End"

\* One instruction of the charging function that is neither a call nor
\* Unreachable nor the function's last End.
GasCharge_Step ==
    /\ frame.fn = "charge"
    /\ LET i == Code[frame.ip] IN
        /\ i.op \notin {"Call", "Unreachable"}
        /\ ~(i.op = "End" /\ frame.ip = Len(Code))
        /\ stack' = CASE i.op = "GetGlobal" -> Push(globalVals[i.idx + 1])
                      [] i.op = "GetLocal" -> Push(locals[i.idx + 1])
                      [] i.op = "I64ExtendUI32" -> Append(Pop(1), ZeroExtend(Top))
                      [] i.op = "I64Const" -> Push(i.imm)
                      [] i.op = "I64Add" -> Append(Pop(2), WrappingAdd(Second, Top))
                      [] i.op = "I64Sub" -> Append(Pop(2), WrappingSub(Second, Top))
                      [] i.op = "I64LtU" ->
                           Append(Pop(2), IF LtU(Second, Top) THEN Small32(1)
                                                              ELSE Small32(0))
                      [] i.op \in {"If", "SetGlobal"} -> Pop(1)
                      [] OTHER -> stack
        /\ locals' = IF i.op = "TeeLocal" THEN [locals EXCEPT ![i.idx + 1] = Top]
                                          ELSE locals
        /\ globalVals' = IF i.op = "SetGlobal"
                           THEN [globalVals EXCEPT ![i.idx + 1] = Top]
                           ELSE globalVals
        /\ frame' = [frame EXCEPT !.ip =
                        IF i.op = "If" /\ Top = Small32(0) THEN AfterEnd(frame.ip)
                                                           ELSE frame.ip + 1]
        /\ glog' = IF i.op # "SetGlobal" THEN glog
                   ELSE IF i.idx = GasIndex(gmod) THEN Append(glog, "write_gas")
                   ELSE Append(glog, "write_allowance")
        /\ charged' = IF i.op = "SetGlobal" /\ i.idx = GasIndex(gmod)
                        THEN Append(charged, atCall.c) ELSE charged
    /\ UNCHANGED <<gmod, grules, gas0, allowance0, atCall>>
    /\ UNCHANGED <<envVars, injVars, lazyVars>>

\* Call of an import: out_of_gas or out_of_allowance.  The host function
\* either returns or traps.
GasCharge_HostCall ==
    /\ frame.fn = "charge"
    /\ Code[frame.ip].op = "Call"
    /\ glog' = Append(glog, "host_" \o FuncImports(gmod)[Code[frame.ip].idx + 1].field)
    /\ \E returns \in BOOLEAN :
        frame' = IF returns THEN [frame EXCEPT !.ip = @ + 1]
                            ELSE [frame EXCEPT !.fn = "trapped"]
    /\ UNCHANGED <<gmod, grules, globalVals, stack, locals, charged, gas0,
                   allowance0, atCall>>
    /\ UNCHANGED <<envVars, injVars, lazyVars>>

\* Unreachable traps: the execution is over.
GasCharge_Unreachable ==
    /\ frame.fn = "charge"
    /\ Code[frame.ip].op = "Unreachable"
    /\ glog' = Append(glog, "trap")
    /\ frame' = [frame EXCEPT !.fn = "trapped"]
    /\ UNCHANGED <<gmod, grules, globalVals, stack, locals, charged, gas0,
                   allowance0, atCall>>
    /\ UNCHANGED <<envVars, injVars, lazyVars>>

\* The last End: the charging function returns and the block's body runs.
GasCharge_Return ==
    /\ frame.fn = "charge"
    /\ Code[frame.ip].op = "End"
    /\ frame.ip = Len(Code)
    /\ glog' = Append(glog, "body")
    /\ frame' = [frame EXCEPT !.fn = "guest", !.f = ExportIndex(gmod, "handle"),
                              !.ip = 0]
    /\ UNCHANGED <<gmod, grules, globalVals, stack, locals, charged, gas0,
                   allowance0, atCall>>
    /\ UNCHANGED <<envVars, injVars, lazyVars>>

\* The entry function returns.
Guest_Finish ==
    /\ frame.fn = "guest"
    /\ frame' = [frame EXCEPT !.fn = "done"]
    /\ UNCHANGED <<gmod, grules, globalVals, stack, locals, glog, charged, gas0,
                   allowance0, atCall>>
    /\ UNCHANGED <<envVars, injVars, lazyVars>>

-----------------------------------------------------------------------------
(* Lazy pages: LazyPagesExt (pallets/gear/src/ext.rs) around the memory of  *)
(* one program.  The lazy_pages crate, the inner Ext (alloc_inner, free,    *)
(* into_ext_info_inner) and the executor that calls init, the post-         *)
(* execution actions and into_ext_info are taken from their description.    *)

MaxExecs == 2
MaxLazySteps == 3
MaxWasmPages == 3

\* gear pages in one wasm page (scaled down)
GearPagesPerWasmPage == 2
\* GearPage::to_page::<WasmPage>()
to_page(p) == p \div GearPagesPerWasmPage
\* the gear pages of a memory of `size` wasm pages
GearPages(size) == 0..(size * GearPagesPerWasmPage - 1)
\* host addresses a buffer can be at
Addrs == {1, 2}
\* what a write stores; a fresh page holds 0
Data == {1, 2}

\* Uninitialized: no program has been set up.
LazyInit ==
    /\ lpc = "idle"
    /\ memAddr = 1
    /\ memSize = 1
    /\ content = [p \in GearPages(1) |-> 0]
    /\ staticPages = 1
    /\ allocations = {}
    /\ prot = {}
    /\ protAddr = <<>>
    /\ released = {}
    /\ handler = <<>>
    /\ grown = <<>>
    /\ touched = {}
    /\ written = {}
    /\ extracted = <<>>
    /\ llog = <<>>
    /\ execs = 0
    /\ lsteps = 0

\* lazy_pages::get_released_pages()
get_released_pages == released

\* lazy_pages::update_lazy_pages_and_protect_again: the pages of the grown
\* part join the lazy pages, and every lazy page (one not released) is
\* protected against the new buffer address.
update_lazy_pages_and_protect_again(size, old_mem_addr, old_mem_size, new_mem_addr) ==
    [ prot |-> ((GearPages(old_mem_size) \ released)
                 \cup (GearPages(size) \ GearPages(old_mem_size))),
      addr |-> << new_mem_addr >> ]

\* lines 80-88: lazy_pages_init_for_program; the executor calls it with the
\* program's memory, static pages and allocations before the guest runs.
\* init_for_program protects the whole range and starts with nothing
\* released.
Lazy_InitForProgram ==
    /\ lpc = "idle"
    /\ execs < MaxExecs
    /\ \E size \in 1..2, addr \in Addrs :
        \E allocs \in SUBSET (1..(size - 1)) :
            /\ memSize' = size
            /\ memAddr' = addr
            /\ allocations' = allocs
            /\ content' = [p \in GearPages(size) |-> 0]
            /\ prot' = GearPages(size)
            /\ protAddr' = << addr >>
    /\ staticPages' = 1
    /\ released' = {}
    /\ handler' = <<>>
    /\ grown' = <<>>
    /\ touched' = {}
    /\ written' = {}
    /\ extracted' = <<>>
    /\ llog' = << "init" >>
    /\ execs' = execs + 1
    /\ lsteps' = 0
    /\ lpc' = "running"
    /\ UNCHANGED <<envVars, injVars, gasVars>>

\* The guest reads or writes a page of its memory: a page still protected
\* is released on this first touch (pre_process_memory_accesses, lines
\* 62-67, or the access fault).
Lazy_Access ==
    /\ lpc = "running"
    /\ lsteps < MaxLazySteps
    /\ \E p \in GearPages(memSize), write \in BOOLEAN, v \in Data :
        /\ released' = IF p \in prot THEN released \cup {p} ELSE released
        /\ prot' = prot \ {p}
        /\ touched' = touched \cup {p}
        /\ written' = IF write THEN written \cup {p} ELSE written
        /\ content' = IF write THEN [content EXCEPT ![p] = v] ELSE content
    /\ lsteps' = lsteps + 1
    /\ UNCHANGED <<lpc, memAddr, memSize, staticPages, allocations, protAddr,
                   handler, grown, extracted, llog, execs>>
    /\ UNCHANGED <<envVars, injVars, gasVars>>

\* lines 135-141: alloc of one page, alloc_inner::<LazyGrowHandler>.  A free
\* page inside the memory is taken as it is; otherwise the memory has to
\* grow, between the two actions of the handler; at the largest size the
\* alloc fails.
Lazy_Alloc ==
    /\ lpc = "running"
    /\ lsteps < MaxLazySteps
    /\ LET free == { w \in staticPages..(memSize - 1) : w \notin allocations }
       IN  IF free # {}
             THEN /\ allocations' = allocations \cup
                        { CHOOSE w \in free : \A x \in free : w <= x }
                  /\ lpc' = lpc
             ELSE /\ allocations' = allocations
                  /\ lpc' = IF memSize < MaxWasmPages THEN "before_grow" ELSE lpc
    /\ lsteps' = lsteps + 1
    /\ UNCHANGED <<memAddr, memSize, content, staticPages, prot, protAddr,
                   released, handler, grown, touched, written, extracted, llog,
                   execs>>
    /\ UNCHANGED <<envVars, injVars, gasVars>>

\* (a variant that leaves the protections in place before the growth)
BeforeGrowAction_KeepProt ==
    /\ lpc = "before_grow"
    /\ handler' = << [old_mem_addr |-> << memAddr >>, old_mem_size |-> memSize] >>
    /\ llog' = Append(llog, "before_grow")
    /\ lpc' = "grow"
    /\ UNCHANGED <<memAddr, memSize, content, staticPages, allocations, prot,
                   protAddr, released, grown, touched, written, extracted,
                   execs, lsteps>>
    /\ UNCHANGED <<envVars, injVars, gasVars>>

\* lines 105-115: before_grow_action: the buffer address is read, the
\* protections are removed, the handler keeps the address and the size.
BeforeGrowAction ==
    /\ lpc = "before_grow"
    /\ handler' = << [old_mem_addr |-> << memAddr >>, old_mem_size |-> memSize] >>
    /\ prot' = {}                      \* lazy_pages::remove_lazy_pages_prot
    /\ protAddr' = <<>>
    /\ llog' = Append(llog, "before_grow")
    /\ lpc' = "grow"
    /\ UNCHANGED <<memAddr, memSize, content, staticPages, allocations,
                   released, grown, touched, written, extracted, execs, lsteps>>
    /\ UNCHANGED <<envVars, injVars, gasVars>>

\* alloc_inner grows the memory by the page it allocates: the content is
\* kept, the buffer may move.
Lazy_Grow ==
    /\ lpc = "grow"
    /\ \E addr \in Addrs : memAddr' = addr
    /\ memSize' = memSize + 1
    /\ content' = [p \in GearPages(memSize + 1) |->
                      IF p \in GearPages(memSize) THEN content[p] ELSE 0]
    /\ allocations' = allocations \cup {memSize}
    /\ grown' = << [old_size |-> memSize, old_addr |-> memAddr, prot |-> prot,
                     after |-> {}] >>
    /\ llog' = Append(llog, "grow")
    /\ lpc' = "after_grow"
    /\ UNCHANGED <<staticPages, prot, protAddr, released, handler, touched,
                   written, extracted, execs, lsteps>>
    /\ UNCHANGED <<envVars, injVars, gasVars>>

\* lines 117-129: after_grow_action: the new address is read and the lazy
\* pages, the new ones included, are protected again.
AfterGrowAction ==
    /\ lpc = "after_grow"
    /\ LET new_mem_addr == memAddr
           again == update_lazy_pages_and_protect_again(memSize,
                        handler[1].old_mem_addr, handler[1].old_mem_size,
                        new_mem_addr)
       IN  /\ prot' = again.prot
           /\ protAddr' = again.addr
           /\ grown' = << [grown[1] EXCEPT !.after = again.prot] >>
    /\ handler' = <<>>
    /\ llog' = Append(llog, "after_grow")
    /\ lpc' = "running"
    /\ UNCHANGED <<memAddr, memSize, content, staticPages, allocations,
                   released, touched, written, extracted, execs, lsteps>>
    /\ UNCHANGED <<envVars, injVars, gasVars>>

\* free (self.inner.free): an allocated page leaves the allocations set.
Lazy_Free ==
    /\ lpc = "running"
    /\ lsteps < MaxLazySteps
    /\ \E w \in allocations : allocations' = allocations \ {w}
    /\ lsteps' = lsteps + 1
    /\ UNCHANGED <<lpc, memAddr, memSize, content, staticPages, prot, protAddr,
                   released, handler, grown, touched, written, extracted, llog,
                   execs>>
    /\ UNCHANGED <<envVars, injVars, gasVars>>

\* The guest's run is over: it returned or it trapped.
Lazy_EndExecution ==
    /\ lpc = "running"
    /\ \E trapped \in BOOLEAN :
        llog' = Append(llog, IF trapped THEN "trap" ELSE "finish")
    /\ lpc' = "ended"
    /\ UNCHANGED <<memAddr, memSize, content, staticPages, allocations, prot,
                   protAddr, released, handler, grown, touched, written,
                   extracted, execs, lsteps>>
    /\ UNCHANGED <<envVars, injVars, gasVars>>

\* (a variant that would leave the protections where they are)
Lazy_PostExecutionActions_None ==
    /\ lpc = "ended"
    /\ llog' = Append(llog, "post_execution")
    /\ lpc' = "torn_down"
    /\ UNCHANGED <<memAddr, memSize, content, staticPages, allocations, prot,
                   protAddr, released, handler, grown, touched, written,
                   extracted, execs, lsteps>>
    /\ UNCHANGED <<envVars, injVars, gasVars>>

\* lines 90-92: lazy_pages_post_execution_actions: remove_lazy_pages_prot.
Lazy_PostExecutionActions ==
    /\ lpc = "ended"
    /\ prot' = {}
    /\ protAddr' = <<>>
    /\ llog' = Append(llog, "post_execution")
    /\ lpc' = "torn_down"
    /\ UNCHANGED <<memAddr, memSize, content, staticPages, allocations,
                   released, handler, grown, touched, written, extracted,
                   execs, lsteps>>
    /\ UNCHANGED <<envVars, injVars, gasVars>>

\* (a filter that would keep every released page)
pages_for_data_All(static_pages, allocs) ==
    get_released_pages

\* (a filter that would keep the static pages only)
pages_for_data_StaticOnly(static_pages, allocs) ==
    { p \in get_released_pages : to_page(p) < static_pages }

\* lines 45-55: the closure pages_for_data: the released pages whose wasm
\* page is static or allocated.
pages_for_data(static_pages, allocs) ==
    { p \in get_released_pages :
        LET wasm_page == to_page(p)
        IN  wasm_page < static_pages \/ wasm_page \in allocs }

\* into_ext_info_inner: the data of each of these pages, read from the memory
into_ext_info_inner(pages) ==
    { [page |-> p, data |-> content[p]] : p \in pages }

\* lines 44-57: into_ext_info
Lazy_IntoExtInfo ==
    /\ lpc = "torn_down"
    /\ extracted' = << into_ext_info_inner(pages_for_data(staticPages, allocations)) >>
    /\ llog' = Append(llog, "into_ext_info")
    /\ lpc' = "idle"
    /\ UNCHANGED <<memAddr, memSize, content, staticPages, allocations, prot,
                   protAddr, released, handler, grown, touched, written,
                   execs, lsteps>>
    /\ UNCHANGED <<envVars, injVars, gasVars>>

-----------------------------------------------------------------------------
(* Specifications *)

\* the Environment
Next ==
    \/ SetupAndRun_ModuleNew
    \/ SetupAndRun_ExtSet
    \/ RunInner_Namespace
    \/ RunInner_Resolve
    \/ RunInner_Externs
    \/ RunInner_InstanceNew
    \/ RunInner_SetPages
    \/ RunInner_Func
    \/ Guest_Instr
    \/ Guest_HostCall
    \/ Guest_Trap
    \/ Guest_Return
    \/ SetupAndRun_ExtUnset

Init == EnvInit /\ InjIdle /\ GasIdle /\ LazyInit

Spec == Init /\ [][Next]_vars

\* inject, called on a module and again on what it returned
InjNext == Inject

InitInject == EnvInit /\ InjInit /\ GasIdle /\ LazyInit

SpecInject == InitInject /\ [][InjNext]_vars

\* one execution of an instrumented module
GasNext ==
    \/ Guest_EnterBlock
    \/ GasCharge_Step
    \/ GasCharge_HostCall
    \/ GasCharge_Unreachable
    \/ GasCharge_Return
    \/ Guest_Finish

InitGas == EnvInit /\ InjIdle /\ GasInit /\ LazyInit

SpecGas == InitGas /\ [][GasNext]_vars


\* executions of one program with lazy pages
LazyNext ==
    \/ Lazy_InitForProgram
    \/ Lazy_Access
    \/ Lazy_Alloc
    \/ BeforeGrowAction
    \/ Lazy_Grow
    \/ AfterGrowAction
    \/ Lazy_Free
    \/ Lazy_EndExecution
    \/ Lazy_PostExecutionActions
    \/ Lazy_IntoExtInfo

InitLazy == EnvInit /\ InjIdle /\ GasIdle /\ LazyInit

SpecLazy == InitLazy /\ [][LazyNext]_vars
-----------------------------------------------------------------------------
(* Properties of the environment *)

Events(es) == { i \in 1..Len(trace) : trace[i] \in es }
Did(e) == Events({e}) # {}

\* No call is in progress: none was made yet, the last one returned, or the
\* last one panicked.
CallEnded == pc = "panicked" \/ (pc = "idle" /\ calls > 0)
CallReturned == pc = "idle" /\ calls > 0

StartEvents == {"guest_start", "host_start", "trap_start", "return_start"}
EntryEvents == {"guest_entry", "host_entry", "trap_entry", "return_entry"}
GuestEvents == StartEvents \cup EntryEvents \cup {"host_on_empty_cell"}

\* C1: every call of setup_and_run, whatever its outcome, ends with the cell
\* empty and returns the pair (result, ext) carrying the ext passed in.
C1_EveryCallReturnsExt ==
    CallEnded =>
        /\ cell = <<>>
        /\ returned # <<>>
        /\ returned[1].ext.id = extIn.id

\* C2: instantiation is attempted if and only if every import is in namespace
\* "env" and named "memory" or by a key of the host-function table; otherwise
\* the call returns an error result and Instance::new is never reached.
C2_InstantiationIffImportsOk ==
    (CallEnded /\ binaryOk) =>
        /\ Did("instance_new") <=> ImportsOk(imports)
        /\ ~ImportsOk(imports) =>
              /\ returned # <<>>
              /\ IsErr(returned[1].result)

\* C6: the cell is empty before and after each call and populated only during
\* it, and no host function, nor guest code that could call one, runs while
\* the cell is empty.
C6_CellOnlyDuringCall ==
    /\ (pc \in {"idle", "panicked"}) => cell = <<>>
    /\ ~Did("host_on_empty_cell")
    /\ pc = "guest" => cell # <<>>

\* C7 (as claimed): the initial pages are written after instantiation and
\* before any guest code of the module runs.
C7_PagesBeforeAnyGuestCode ==
    \A i \in Events(GuestEvents) : \E j \in Events({"set_pages"}) : j < i

\* C7 (amended): the initial pages are written after Instance::new has
\* returned, with nothing run in between, and before the entry point is
\* invoked; only a start function, run inside Instance::new, precedes them.
C7_PagesBeforeEntryPoint ==
    /\ \A i \in Events(EntryEvents \cup {"get_func"}) :
          \E j \in Events({"set_pages"}) : j < i
    /\ \A j \in Events({"set_pages"}) :
          /\ j > 1
          /\ trace[j - 1] \in {"instance_new", "return_start"}
          /\ \E k \in Events({"instance_new"}) : k < j
    /\ pc = "guest" /\ phase = "entry" => Did("set_pages")

C7_Witness ==
    /\ pc = "guest"
    /\ phase = "entry"
    /\ Did("guest_start")
    /\ Did("guest_entry")

\* C8: when the operation behind a host function returns an error, the call
\* becomes a trap: it is the last thing the guest does in that setup_and_run,
\* no further host function runs, and the returned result is an error.
C8_HostErrorIsTrap ==
    \A i \in Events({"host_err"}) :
        /\ \A j \in (i + 1)..Len(trace) : trace[j] = "ext_unset"
        /\ pc \in {"unset", "idle"}
        /\ result # <<>> /\ IsErr(result[1])
        /\ pc = "idle" => (returned # <<>> /\ IsErr(returned[1].result))

C8_Witness ==
    /\ CallReturned
    /\ Did("host_err")
    /\ Did("guest_entry")
    /\ IsErr(returned[1].result)

\* C10: an invalid binary makes the call fail with a load error returned as
\* the result value, together with the ext; the entry point is never invoked.
C10_InvalidBinaryReturnsError ==
    (CallEnded /\ ~binaryOk) =>
        /\ returned # <<>>
        /\ IsErr(returned[1].result)
        /\ returned[1].ext.id = extIn.id
        /\ Events(EntryEvents) = {}

-----------------------------------------------------------------------------
(* Properties of the environment: the entry point and failed instantiation *)

MissingExport == "Err(failed to find function export)"

\* C11: when the instantiated module has no function export named
\* entry_point, setup_and_run returns a reported error result (not a trap)
\* together with the ext, and no exported guest function is invoked.
C11_MissingEntryIsReportedError ==
    /\ (Did("get_func") /\ ~entryExported) =>
          /\ pc \in {"unset", "idle"}
          /\ result = << MissingExport >>
          /\ Events(EntryEvents) = {}
          /\ pc = "idle" =>
                /\ returned # <<>>
                /\ returned[1].result = MissingExport
                /\ returned[1].ext.id = extIn.id
                /\ cell = <<>>
    /\ (pc = "guest" /\ phase = "entry") => entryExported

C11_Witness ==
    /\ CallReturned
    /\ Did("get_func")
    /\ ~entryExported
    /\ returned[1].result = MissingExport

\* The errors of import resolution (lines 112-121, 140-145) and of
\* Instance::new (line 147).
InstantiationErrors ==
    { "Err(Non-env imports are not supported)", "Err(Missing import)",
      "Err(instantiation)" }

\* Instance::new failed because the start function it ran has trapped.
StartFailed ==
    \E i \in 1..Len(trace) :
        \/ trace[i] = "trap_start"
        \/ i > 1 /\ trace[i] = "host_err" /\ trace[i - 1] = "host_start"

InstantiationFailed ==
    \/ result # <<>> /\ result[1] \in InstantiationErrors
    \/ StartFailed

C16_ForbiddenNeverExecuted ==
    ~Did("forbidden_op")
-----------------------------------------------------------------------------
(* Properties of the injector and of instrumented executions *)

\* the per-call cost patched into the charging function of the module
Overhead ==
    LET code == DefinedFunction(gmod, FunctionsSpace(gmod) - 1).blocks[1]
    IN  code[CHOOSE i \in 1..Len(code) : code[i].op = "I64Const"].imm
\* what one charging call with operand c takes
Total(c) == WrappingAdd(ZeroExtend(c), Overhead)

RECURSIVE SumOperands(_)
SumOperands(cs) ==
    IF cs = <<>> THEN Zero64
    ELSE WrappingAdd(ZeroExtend(Head(cs)), SumOperands(Tail(cs)))

RECURSIVE SumTotals(_)
SumTotals(cs) ==
    IF cs = <<>> THEN Zero64
    ELSE WrappingAdd(Total(Head(cs)), SumTotals(Tail(cs)))

GLogEvents(es) == { i \in 1..Len(glog) : glog[i] \in es }
Called(name) == GLogEvents({"host_" \o name}) # {}
\* operands of the blocks whose bodies ran
Executed == IF GLogEvents({"body"}) = {} THEN <<>>
            ELSE SubSeq(charged, 1, Cardinality(GLogEvents({"body"})))
\* the current charging call has passed its gas check
PassedGasCheck == Len(charged) = frame.n /\ frame.n > 0

\* C3 (as claimed): the gas counter has gone down by exactly the sum of the
\* costs c_i of the blocks executed, and out_of_gas is called exactly when the
\* next block's cost exceeds the remaining gas, the counter being unchanged.
C3_GasSpentIsBlockCosts ==
    /\ frame.fn \in {"guest", "done"} =>
          Gas = WrappingSub(gas0, SumOperands(Executed))
    /\ Called(OutOfGasName) =>
          /\ LtU(atCall.gas, ZeroExtend(atCall.c))
          /\ Gas = atCall.gas
    /\ PassedGasCheck => LeU(ZeroExtend(atCall.c), atCall.gas)

\* C3 (amended): the gas counter has gone down by exactly the sum of
\* c_i + per-call cost over the charges that passed the gas check, and
\* out_of_gas is called exactly when c + per-call cost exceeds the remaining
\* gas, the counter being unchanged by that call.
C3_GasSpentIsChargedTotals ==
    /\ Gas = WrappingSub(gas0, SumTotals(charged))
    /\ LeU(SumTotals(charged), gas0)
    /\ Called(OutOfGasName) =>
          /\ LtU(atCall.gas, Total(atCall.c))
          /\ Gas = atCall.gas
          /\ Len(charged) = frame.n - 1
    /\ PassedGasCheck =>
          /\ LeU(Total(atCall.c), atCall.gas)
          /\ Gas = WrappingSub(atCall.gas, Total(atCall.c))
    /\ frame.fn \in {"guest", "done"} => Len(charged) = frame.n

C3_Witness ==
    /\ frame.fn = "trapped"
    /\ Called(OutOfGasName)
    /\ Len(charged) >= 1
    /\ Overhead # Zero64
    /\ LeU(ZeroExtend(atCall.c), atCall.gas)

\* C4: the gas and allowance globals never increase and never wrap: a counter
\* is written only when counter >= total held, the new value being
\* counter - total, and nothing is written once the execution has trapped.
C4_CountersNeverIncrease ==
    [][ /\ LeU(Gas', Gas)
        /\ LeU(Allowance', Allowance)
        /\ Gas' # Gas =>
              /\ LeU(Total(atCall.c), Gas)
              /\ Gas' = WrappingSub(Gas, Total(atCall.c))
        /\ Allowance' # Allowance =>
              /\ LeU(Total(atCall.c), Allowance)
              /\ Allowance' = WrappingSub(Allowance, Total(atCall.c))
        /\ frame.fn = "trapped" => (Gas' = Gas /\ Allowance' = Allowance)
        /\ (Called(OutOfGasName) \/ Called(OutOfAllowanceName)) =>
              (Gas' = Gas /\ Allowance' = Allowance) ]_vars

C4_Witness ==
    /\ frame.fn = "guest"
    /\ frame.n >= 1
    /\ Gas # gas0
    /\ Gas # Zero64
    /\ Allowance = Zero64
    /\ allowance0 # Zero64

\* C5: inject returns Err(m), m unmodified, whenever m already imports
\* out_of_gas or out_of_allowance from the namespace or already exports
\* gear_gas or gear_allowance; so injecting the result of a successful
\* injection again fails and hands that result back unchanged.
AlreadyInstrumented(m, ns) ==
    \/ \E i \in 1..Len(m.imports) :
          /\ m.imports[i].module = ns
          /\ m.imports[i].field \in {OutOfGasName, OutOfAllowanceName}
    \/ \E i \in 1..Len(m.exports) :
          m.exports[i].field \in {GLOBAL_NAME_GAS, GLOBAL_NAME_ALLOWANCE}

C5_ReinjectionRejected ==
    \A k \in 1..Len(ihist) :
        /\ AlreadyInstrumented(ihist[k].input, ins) =>
              (~ihist[k].ok /\ ihist[k].output = ihist[k].input)
        /\ (k > 1 /\ ihist[k - 1].ok /\ ihist[k].rules = ihist[k - 1].rules) =>
              /\ ihist[k].input = ihist[k - 1].output
              /\ ~ihist[k].ok
              /\ ihist[k].output = ihist[k - 1].output

C5_Witness ==
    /\ Len(ihist) = 2
    /\ ihist[1].ok
    /\ ihist[1].output # ihist[1].input
    /\ ihist[2].rules = ihist[1].rules
    /\ ~ihist[2].ok
    /\ ihist[2].output = ihist[1].output

\* C9: once a charging call finds allowance < total, out_of_allowance is the
\* last host call of the execution: whether it returns or traps, no counter
\* write and no block body follows it.
C9_OutOfAllowanceIsLast ==
    /\ \A i \in GLogEvents({"host_" \o OutOfAllowanceName}) :
          /\ \A j \in (i + 1)..Len(glog) : glog[j] = "trap"
          /\ LtU(atCall.allowance, Total(atCall.c))
          /\ Allowance = atCall.allowance
          /\ frame.fn \in {"charge", "trapped"}
          /\ frame.fn = "charge" => Code[frame.ip].op = "Unreachable"
    /\ (frame.fn = "charge" /\ Code[frame.ip].op = "Call"
        /\ FuncImports(gmod)[Code[frame.ip].idx + 1].field = OutOfAllowanceName)
          <=> (/\ frame.fn = "charge"
               /\ frame.ip > 1
               /\ Code[frame.ip - 1].op = "If"
               /\ PassedGasCheck
               /\ LtU(Allowance, Total(atCall.c)))

C9_Witness ==
    /\ frame.fn = "trapped"
    /\ Called(OutOfAllowanceName)
    /\ glog[Len(glog)] = "trap"
    /\ Len(charged) = 2

-----------------------------------------------------------------------------
(* Properties of inject: failure and the interface of the result           *)

\* The module carries both trap imports of the namespace.
HasTrapImports(m, ns) ==
    \A name \in {OutOfGasName, OutOfAllowanceName} :
        \E i \in 1..Len(m.imports) :
            m.imports[i].module = ns /\ m.imports[i].field = name

\* The module exports both counter globals.
HasCounterExports(m) ==
    \A name \in {GLOBAL_NAME_GAS, GLOBAL_NAME_ALLOWANCE} :
        \E i \in 1..Len(m.exports) :
            m.exports[i].field = name /\ m.exports[i].kind = "global"

\* Partially instrumented: the trap imports and the counters were added to
\* `input`, but its functions are as they were: no charging function, no
\* charge call in any block.
HalfPatched(input, output, ns) ==
    /\ HasTrapImports(output, ns)
    /\ HasCounterExports(output)
    /\ Len(output.globals) = Len(input.globals) + 2
    /\ output.functions = input.functions

\* C12: when inject fails after its pre-checks, the module handed back is
\* never a partially instrumented one.
C12_FailureNeverHalfPatched ==
    \A k \in 1..Len(ihist) :
        (~ihist[k].ok /\ ~AlreadyInstrumented(ihist[k].input, ins)) =>
            ~HalfPatched(ihist[k].input, ihist[k].output, ins)

\* The export of the result that stands for export e of the input: the same
\* name and kind; a function keeps its identity, its index moved past the
\* two imports put in front of the defined functions.
SameExport(input, e) ==
    IF e.kind = "func" /\ e.index >= ImportCount(input, "func")
      THEN Export(e.field, e.kind, e.index + 2)
      ELSE e

\* C17: when inject succeeds, the interface of the result differs from the
\* input's by exactly two function imports out_of_gas and out_of_allowance
\* of the namespace with signature ()->(), placed after every other import,
\* and two mutable i64 globals initialised to 0, appended after the existing
\* globals and exported as gear_gas and gear_allowance in that order.
C17_InterfaceOfResult ==
    \A k \in 1..Len(ihist) :
        ihist[k].ok =>
            LET input == ihist[k].input
                output == ihist[k].output
                n == Len(input.exports)
            IN  /\ output.imports = input.imports \o
                      << Import(ins, OutOfGasName, "func", "()->()"),
                         Import(ins, OutOfAllowanceName, "func", "()->()") >>
                /\ output.globals = input.globals \o
                      << [vtype |-> "i64", mutable |-> TRUE, init |-> Zero64],
                         [vtype |-> "i64", mutable |-> TRUE, init |-> Zero64] >>
                /\ Len(output.exports) = n + 2
                /\ \A i \in 1..n : output.exports[i] = SameExport(input, input.exports[i])
                /\ output.exports[n + 1] =
                      Export(GLOBAL_NAME_GAS, "global", GlobalsSpace(input))
                /\ output.exports[n + 2] =
                      Export(GLOBAL_NAME_ALLOWANCE, "global", GlobalsSpace(input) + 1)

C17_Witness ==
    \E k \in 1..Len(ihist) :
        /\ ihist[k].ok
        /\ ImportCount(ihist[k].input, "func") > 0
        /\ Len(ihist[k].input.globals) > 0
        /\ Len(ihist[k].output.imports) = Len(ihist[k].input.imports) + 2

-----------------------------------------------------------------------------
(* Properties of one call of the charging function                          *)

\* What the current (or last) charging call has done: the events after its
\* "charge" event.
LastCharge == CHOOSE i \in GLogEvents({"charge"}) :
                  \A j \in GLogEvents({"charge"}) : j <= i
CallLog == IF GLogEvents({"charge"}) = {} THEN <<>>
           ELSE SubSeq(glog, LastCharge + 1, Len(glog))
InCall(e) == \E i \in 1..Len(CallLog) : CallLog[i] = e
Before(e1, e2) ==
    \E i, j \in 1..Len(CallLog) : i < j /\ CallLog[i] = e1 /\ CallLog[j] = e2

\* C18: one call of the charging function with operand c and
\* total = zext(c) + overhead: if gas < total, out_of_gas is called and both
\* counters are unchanged; otherwise gas is reduced by total first, and then
\* if allowance < total, out_of_allowance is called with the allowance
\* unchanged; otherwise the allowance is reduced by total.  A counter equal
\* to total does not trap and becomes 0.
C18_OneChargingCall ==
    LET total == Total(atCall.c)
        outOfGas == InCall("host_" \o OutOfGasName)
        outOfAllowance == InCall("host_" \o OutOfAllowanceName)
    IN  /\ outOfGas =>
              /\ LtU(atCall.gas, total)
              /\ ~InCall("write_gas") /\ ~InCall("write_allowance")
              /\ ~outOfAllowance
        /\ InCall("write_gas") =>
              /\ LeU(total, atCall.gas)
              /\ Gas = WrappingSub(atCall.gas, total)
              /\ atCall.gas = total => Gas = Zero64
        /\ ~InCall("write_gas") => Gas = atCall.gas
        /\ outOfAllowance =>
              /\ Before("write_gas", "host_" \o OutOfAllowanceName)
              /\ LtU(atCall.allowance, total)
              /\ ~InCall("write_allowance")
        /\ InCall("write_allowance") =>
              /\ Before("write_gas", "write_allowance")
              /\ LeU(total, atCall.allowance)
              /\ Allowance = WrappingSub(atCall.allowance, total)
              /\ atCall.allowance = total => Allowance = Zero64
        /\ ~InCall("write_allowance") => Allowance = atCall.allowance
        \* how the call ends
        /\ InCall("body") => InCall("write_gas") /\ InCall("write_allowance")
        /\ frame.fn = "trapped" => (outOfGas \/ outOfAllowance)
        /\ (frame.fn \in {"guest", "done"} /\ frame.n > 0) => InCall("body")

\* gas equal to total: the call passes the gas check, leaves gas at 0 and
\* stops at the allowance check.
C18_Witness ==
    /\ frame.fn = "trapped"
    /\ atCall.gas = Total(atCall.c)
    /\ atCall.gas # Zero64
    /\ Gas = Zero64
    /\ InCall("host_" \o OutOfAllowanceName)
    /\ Allowance = atCall.allowance

-----------------------------------------------------------------------------
(* Properties of the per-call cost                                          *)

\* The constant patched into the charging function of an injected module.
ChargeConst(m) ==
    LET code == m.functions[Len(m.functions)].blocks[1]
    IN  code[CHOOSE i \in 1..Len(code) : code[i].op = "I64Const"].imm

\* The per-call cost of the rules, term by term, with the carry of every
\* partial sum: I32Const + Call, + per-local cost, + the charging function's
\* own instructions.
PerCallSums(rules) ==
    LET s1 == AddCarry(ZeroExtend(InstructionCost(rules, Ins("I32Const"))[1]),
                       ZeroExtend(InstructionCost(rules, Ins("Call"))[1]))
        s2 == AddCarry(s1.val, ZeroExtend(rules.call_per_local_cost))
        s3 == AddCarry(s2.val, CostBlocks(elements(0, 1, 0, 1), rules)[1])
    IN  << s1, s2, s3 >>

HasPerCallCost(rules) ==
    /\ InstructionCost(rules, Ins("I32Const")) # <<>>
    /\ InstructionCost(rules, Ins("Call")) # <<>>
    /\ CostBlocks(elements(0, 1, 0, 1), rules) # <<>>

\* C20: inject returns an error whenever the per-call cost exceeds
\* u64::MAX - u32::MAX, so for every 32-bit operand c of an accepted module
\* zext(c) + per-call cost does not wrap modulo 2^64; and no partial sum
\* computed by inject overflows u64.
C20_PerCallCostNeverWraps ==
    \A k \in 1..Len(ihist) :
        (~AlreadyInstrumented(ihist[k].input, ins) /\ HasPerCallCost(ihist[k].rules)) =>
            LET sums == PerCallSums(ihist[k].rules)
                cost == sums[3].val
            IN  /\ \A i \in 1..3 : sums[i].carry = 0
                /\ LtU(CostLimit, cost) => ~ihist[k].ok
                /\ ihist[k].ok =>
                      /\ ChargeConst(ihist[k].output) = cost
                      /\ LeU(cost, CostLimit)
                      /\ AddCarry(ZeroExtend(U32Max), cost).carry = 0

\* an accepted module whose rules give every instruction the largest cost
C20_Witness ==
    \E k \in 1..Len(ihist) :
        /\ ihist[k].ok
        /\ ihist[k].rules = FlatRules(U32Max)
        /\ LtU(ZeroExtend(U32Max), ChargeConst(ihist[k].output))

-----------------------------------------------------------------------------
(* Properties of a failed inject                                            *)

\* C22: failure of inject is idempotent: if inject(m, rules, ns) is Err(m'),
\* from a pre-check or from a cost failure, then inject(m', rules2, ns) is
\* Err(m') for every rules2: the returned module is rejected by the
\* pre-checks and is never instrumented by a later call.
C22_FailureIsIdempotent ==
    \A k \in 1..Len(ihist) :
        ~ihist[k].ok =>
            /\ \A rules2 \in RulesSet :
                  inject(ihist[k].output, rules2, ins) = Err(ihist[k].output)
            /\ k < Len(ihist) =>
                  /\ ihist[k + 1].input = ihist[k].output
                  /\ ~ihist[k + 1].ok
                  /\ ihist[k + 1].output = ihist[k].output

\* a cost failure followed by a call with rules that price every instruction
C22_Witness ==
    /\ Len(ihist) = 2
    /\ ~ihist[1].ok
    /\ ~AlreadyInstrumented(ihist[1].input, ins)
    /\ ihist[2].rules = FlatRules(Small32(1))
    /\ inject(ihist[1].input, ihist[2].rules, ins).ok
    /\ ~ihist[2].ok
    /\ ihist[2].output = ihist[1].output

-----------------------------------------------------------------------------
(* Properties of the per-call overhead                                      *)

\* the charging function of the module being run
ChargeCode == DefinedFunction(gmod, FunctionsSpace(gmod) - 1).blocks[1]

\* instruction i stands inside an If body: an If before it, not yet closed
InsideIf(code, i) ==
    \E j \in 1..(i - 1) :
        /\ code[j].op = "If"
        /\ \A k \in (j + 1)..(i - 1) : code[k].op # "End"

\* on the non-trapping path: every If, and what is outside the If bodies,
\* but no End
Counted(code, i) ==
    \/ code[i].op = "If"
    \/ code[i].op # "End" /\ ~InsideIf(code, i)

RECURSIVE SumCounted(_, _, _, _)
SumCounted(code, rules, i, sum) ==
    IF i > Len(code) THEN sum
    ELSE IF Counted(code, i)
      THEN SumCounted(code, rules, i + 1,
                      WrappingAdd(sum, ZeroExtend(InstructionCost(rules, code[i])[1])))
      ELSE SumCounted(code, rules, i + 1, sum)

ExpectedOverhead ==
    WrappingAdd(
        WrappingAdd(
            WrappingAdd(ZeroExtend(InstructionCost(grules, Ins("I32Const"))[1]),
                        ZeroExtend(InstructionCost(grules, Ins("Call"))[1])),
            ZeroExtend(grules.call_per_local_cost)),
        SumCounted(ChargeCode, grules, 1, Zero64))

\* C23: the per-call overhead is computed once at injection time as
\* cost(I32Const) + cost(Call) + call_per_local_cost + the costs of the
\* charging function's instructions on the non-trapping path (every If is
\* counted, instructions inside an If body and every End are not); that one
\* value replaces every I64Const placeholder of the charging function, so
\* each successful charge of operand c costs c + overhead whatever the
\* counter values.
C23_OverheadIsOneConstant ==
    /\ \A i \in 1..Len(ChargeCode) :
          ChargeCode[i].op = "I64Const" => ChargeCode[i].imm = ExpectedOverhead
    /\ \E i \in 1..Len(ChargeCode) : ChargeCode[i].op = "I64Const"
    /\ Overhead = ExpectedOverhead
    /\ InCall("write_gas") =>
          Gas = WrappingSub(atCall.gas,
                            WrappingAdd(ZeroExtend(atCall.c), ExpectedOverhead))
    /\ InCall("write_allowance") =>
          Allowance = WrappingSub(atCall.allowance,
                            WrappingAdd(ZeroExtend(atCall.c), ExpectedOverhead))
    /\ InCall("body") =>
          /\ WrappingSub(atCall.gas, Gas) = WrappingSub(atCall.allowance, Allowance)
          /\ WrappingSub(atCall.gas, Gas) =
                WrappingAdd(ZeroExtend(atCall.c), ExpectedOverhead)

\* a second successful charge, from counters that differ from each other and
\* from the first call's, under rules that price the instructions apart
C23_Witness ==
    /\ grules = WeightedRules
    /\ frame.n = 2
    /\ InCall("body")
    /\ atCall.gas # gas0
    /\ atCall.gas # atCall.allowance
    /\ atCall.c # Small32(0)
-----------------------------------------------------------------------------
(* Properties of the lazy pages                                             *)

LLogEvents(es) == { i \in 1..Len(llog) : llog[i] \in es }
LastEvent == IF llog = <<>> THEN "none" ELSE llog[Len(llog)]
ExtractedPages == { e.page : e \in extracted[1] }
\* the page is static or allocated when the execution ends
Kept(p) == to_page(p) < staticPages \/ to_page(p) \in allocations

C14_GrowthPhasesPaired ==
    /\ lpc = "grow" =>
          /\ prot = {}
          /\ LastEvent = "before_grow"
          /\ handler = << [old_mem_addr |-> << memAddr >>, old_mem_size |-> memSize] >>
    /\ lpc = "after_grow" =>
          /\ prot = {}
          /\ grown[1].prot = {}
          /\ LastEvent = "grow"
          /\ handler = << [old_mem_addr |-> << grown[1].old_addr >>,
                           old_mem_size |-> grown[1].old_size] >>
          /\ memSize = grown[1].old_size + 1
    /\ \A i \in LLogEvents({"grow"}) : i > 1 /\ llog[i - 1] = "before_grow"
    /\ \A i \in LLogEvents({"after_grow"}) : i > 1 /\ llog[i - 1] = "grow"
    /\ \A i \in LLogEvents({"before_grow"}) : i < Len(llog) => llog[i + 1] = "grow"
    /\ \A i \in LLogEvents({"grow"}) : i < Len(llog) => llog[i + 1] = "after_grow"
    /\ lpc \notin {"grow", "after_grow"} =>
          /\ handler = <<>>
          /\ Cardinality(LLogEvents({"before_grow"})) =
                Cardinality(LLogEvents({"after_grow"}))
    /\ LastEvent = "after_grow" =>
          /\ prot = GearPages(memSize) \ released
          /\ (GearPages(memSize) \ GearPages(grown[1].old_size)) \subseteq grown[1].after
          /\ prot \subseteq grown[1].after
          /\ protAddr = << memAddr >>
    /\ lpc = "running" => protAddr = << memAddr >>

\* a growth that moved the buffer, after some page had been released
C14_Witness ==
    /\ LastEvent = "after_grow"
    /\ memAddr # grown[1].old_addr
    /\ released # {}
    /\ protAddr = << memAddr >>

C21_AccessedIsReleasedAndKept ==
    extracted # <<>> =>
        /\ ExtractedPages = { p \in released : Kept(p) }
        /\ \A p \in released : ~Kept(p) => p \notin ExtractedPages
        /\ \A e \in extracted[1] : e.data = content[e.page]

\* a page of the grown part, allocated by the growth, touched, then freed
C21_Witness ==
    /\ extracted # <<>>
    /\ grown # <<>>
    /\ \E p \in released :
          /\ to_page(p) = grown[1].old_size
          /\ to_page(p) >= staticPages
          /\ to_page(p) \notin allocations
          /\ p \notin ExtractedPages
=============================================================================
